---- MODULE Spec2Model ----
(***************************************************************************)
(* Model of the IncidentCommandSystem contract (src/unnamed/part_000).     *)
(* Every external function is one atomic transaction: it either commits    *)
(* its storage writes and its events, or reverts and leaves storage as it  *)
(* was.  lastTx is the receipt of the most recent transaction, now is the  *)
(* block timestamp.                                                        *)
(***************************************************************************)
EXTENDS Integers, Sequences, FiniteSets, TLC

\* ---------------------------------------------------------------- bounds
MaxIncidents == 2
MaxCommitted == 4
MaxBlockCommitted == 6
MaxShortCommitted == 3

\* ---------------------------------------------------------------- domains
ZeroAddress == "0x0"
Deployer == "cc"
Addresses == {"cc", "a", "b"}
AllAddresses == Addresses \cup {ZeroAddress}

IncidentStatus == {"REPORTED", "ASSIGNED", "IN_PROGRESS", "RESOLVED", "CLOSED"}
PersonnelRole == {"INCIDENT_COMMANDER", "OPERATIONS_CHIEF", "SAFETY_OFFICER", "FIRST_RESPONDER"}

\* inputs the calls are drawn from
RegistrationInputs ==
  {[name |-> "alice", role |-> "FIRST_RESPONDER"],
   [name |-> "bob", role |-> "SAFETY_OFFICER"]}
DescriptionInputs == {"fire"}
LocationInputs == {"5th ave"}
IncidentIdInputs == 0 .. (MaxIncidents + 1)
Timestamps == {1, 2}

\* keys of the incidents mapping the model keeps (a Solidity mapping is total)
IncidentKeys == 0 .. (MaxIncidents + 1)

VARIABLES commandCenter, incidentCounter, incidents, personnel,
          authorizedPersonnel, now, lastTx, remaining

vars == <<commandCenter, incidentCounter, incidents, personnel,
          authorizedPersonnel, now, lastTx, remaining>>

\* the contract's storage as one value
Storage ==
  [commandCenter |-> commandCenter,
   incidentCounter |-> incidentCounter,
   incidents |-> incidents,
   personnel |-> personnel,
   authorizedPersonnel |-> authorizedPersonnel]

\* zero-initialised struct values of the two mappings
EmptyPersonnel ==
  [walletAddress |-> ZeroAddress, name |-> "", role |-> "INCIDENT_COMMANDER",
   isActive |-> FALSE, currentIncident |-> 0]

EmptyIncident ==
  [id |-> 0, description |-> "", location |-> "", status |-> "REPORTED",
   assignedPersonnel |-> ZeroAddress, reportedTime |-> 0, resolvedTime |-> 0,
   reportedBy |-> ZeroAddress]

\* ---------------------------------------------------------------- events
IncidentReported(incidentId, description, location) ==
  [event |-> "IncidentReported", incidentId |-> incidentId,
   description |-> description, location |-> location]

PersonnelAssigned(incidentId, p) ==
  [event |-> "PersonnelAssigned", incidentId |-> incidentId, personnel |-> p]

StatusUpdated(incidentId, newStatus) ==
  [event |-> "StatusUpdated", incidentId |-> incidentId, newStatus |-> newStatus]

PersonnelRegistered(p, name, role) ==
  [event |-> "PersonnelRegistered", personnel |-> p, name |-> name, role |-> role]

CommandCenterTransferred(oldCommandCenter, newCommandCenter) ==
  [event |-> "CommandCenterTransferred", oldCommandCenter |-> oldCommandCenter,
   newCommandCenter |-> newCommandCenter]

\* ---------------------------------------------------------------- outcomes
\* a failed require: the transaction reverts with its reason string and the
\* storage it ran on is left as it was
Revert(st, reason) ==
  [ok |-> FALSE, reason |-> reason, st |-> st, events |-> <<>>, ret |-> 0]

\* normal return: the storage written, the events emitted, the return value
Commit(st, events, ret) ==
  [ok |-> TRUE, reason |-> "", st |-> st, events |-> events, ret |-> ret]

\* ---------------------------------------------------------------- modifiers
\* variant: any authorized caller passes the command-center guard
onlyCommandCenter_OrAuthorized(st, sender) ==
  sender = st.commandCenter \/ st.authorizedPersonnel[sender]

onlyCommandCenter(st, sender) == sender = st.commandCenter

onlyAuthorized(st, sender) == st.authorizedPersonnel[sender]

\* variant: the lower bound of the id check is missing
validIncident_NoLowerBound(st, incidentId) == incidentId <= st.incidentCounter

\* variant: the upper bound of the id check is off by one
validIncident_OffByOne(st, incidentId) ==
  incidentId > 0 /\ incidentId <= st.incidentCounter + 1

validIncident(st, incidentId) == incidentId > 0 /\ incidentId <= st.incidentCounter

\* ---------------------------------------------------------------- functions
\* variant: the registration does not set the authorization flag
registerPersonnelFn_NoAuthorization(st, sender, p, name, role) ==
  IF ~onlyCommandCenter(st, sender) THEN Revert(st, "Only command center can execute")
  ELSE IF p = ZeroAddress THEN Revert(st, "Personnel address cannot be zero")
  ELSE Commit(
    [st EXCEPT
       !.personnel[p] = [walletAddress |-> p, name |-> name, role |-> role,
                         isActive |-> TRUE, currentIncident |-> 0]],
    <<PersonnelRegistered(p, name, role)>>, 0)

\* variant: an address that already has a record is only re-activated
registerPersonnelFn_KeepsExisting(st, sender, p, name, role) ==
  IF ~onlyCommandCenter(st, sender) THEN Revert(st, "Only command center can execute")
  ELSE IF p = ZeroAddress THEN Revert(st, "Personnel address cannot be zero")
  ELSE IF st.personnel[p].walletAddress = p
    THEN Commit(
      [st EXCEPT !.personnel[p].isActive = TRUE,
                 !.authorizedPersonnel[p] = TRUE],
      <<PersonnelRegistered(p, name, role)>>, 0)
  ELSE Commit(
    [st EXCEPT
       !.personnel[p] = [walletAddress |-> p, name |-> name, role |-> role,
                         isActive |-> TRUE, currentIncident |-> 0],
       !.authorizedPersonnel[p] = TRUE],
    <<PersonnelRegistered(p, name, role)>>, 0)

\* variant: a registration releases the incident the old record pointed at
registerPersonnelFn_ClearsStale(st, sender, p, name, role) ==
  IF ~onlyCommandCenter(st, sender) THEN Revert(st, "Only command center can execute")
  ELSE IF p = ZeroAddress THEN Revert(st, "Personnel address cannot be zero")
  ELSE
    LET assignedIncident == st.personnel[p].currentIncident
        s1 == IF assignedIncident # 0
              THEN [st EXCEPT !.incidents[assignedIncident].assignedPersonnel = ZeroAddress]
              ELSE st
    IN Commit(
      [s1 EXCEPT
         !.personnel[p] = [walletAddress |-> p, name |-> name, role |-> role,
                           isActive |-> TRUE, currentIncident |-> 0],
         !.authorizedPersonnel[p] = TRUE],
      <<PersonnelRegistered(p, name, role)>>, 0)

registerPersonnelFn(st, sender, p, name, role) ==
  IF ~onlyCommandCenter(st, sender) THEN Revert(st, "Only command center can execute")
  ELSE IF p = ZeroAddress THEN Revert(st, "Personnel address cannot be zero")
  ELSE Commit(
    [st EXCEPT
       !.personnel[p] = [walletAddress |-> p, name |-> name, role |-> role,
                         isActive |-> TRUE, currentIncident |-> 0],
       !.authorizedPersonnel[p] = TRUE],
    <<PersonnelRegistered(p, name, role)>>, 0)

\* variant: returns the counter as it was before the increment
reportIncidentFn_ReturnsOld(st, sender, ts, description, location) ==
  IF ~onlyAuthorized(st, sender) THEN Revert(st, "Not authorized personnel")
  ELSE LET counter == st.incidentCounter + 1 IN
    Commit(
      [st EXCEPT
         !.incidentCounter = counter,
         !.incidents[counter] =
            [id |-> counter, description |-> description, location |-> location,
             status |-> "REPORTED", assignedPersonnel |-> ZeroAddress,
             reportedTime |-> ts, resolvedTime |-> 0, reportedBy |-> sender]],
      <<IncidentReported(counter, description, location)>>, st.incidentCounter)

\* variant: the record stores the two strings in each other's field
reportIncidentFn_SwapsStrings(st, sender, ts, description, location) ==
  IF ~onlyAuthorized(st, sender) THEN Revert(st, "Not authorized personnel")
  ELSE LET counter == st.incidentCounter + 1 IN
    Commit(
      [st EXCEPT
         !.incidentCounter = counter,
         !.incidents[counter] =
            [id |-> counter, description |-> location, location |-> description,
             status |-> "REPORTED", assignedPersonnel |-> ZeroAddress,
             reportedTime |-> ts, resolvedTime |-> 0, reportedBy |-> sender]],
      <<IncidentReported(counter, description, location)>>, counter)

\* variant: a new incident starts in the second status of the enum
reportIncidentFn_StartsAssigned(st, sender, ts, description, location) ==
  IF ~onlyAuthorized(st, sender) THEN Revert(st, "Not authorized personnel")
  ELSE LET counter == st.incidentCounter + 1 IN
    Commit(
      [st EXCEPT
         !.incidentCounter = counter,
         !.incidents[counter] =
            [id |-> counter, description |-> description, location |-> location,
             status |-> "ASSIGNED", assignedPersonnel |-> ZeroAddress,
             reportedTime |-> ts, resolvedTime |-> 0, reportedBy |-> sender]],
      <<IncidentReported(counter, description, location)>>, counter)

reportIncidentFn(st, sender, ts, description, location) ==
  IF ~onlyAuthorized(st, sender) THEN Revert(st, "Not authorized personnel")
  ELSE LET counter == st.incidentCounter + 1 IN
    Commit(
      [st EXCEPT
         !.incidentCounter = counter,
         !.incidents[counter] =
            [id |-> counter, description |-> description, location |-> location,
             status |-> "REPORTED", assignedPersonnel |-> ZeroAddress,
             reportedTime |-> ts, resolvedTime |-> 0, reportedBy |-> sender]],
      <<IncidentReported(counter, description, location)>>, counter)

\* variant: the isActive check is missing
assignPersonnelFn_NoActiveCheck(st, sender, incidentId, personnelAddress) ==
  IF ~onlyCommandCenter(st, sender) THEN Revert(st, "Only command center can execute")
  ELSE IF ~validIncident(st, incidentId) THEN Revert(st, "Invalid incident ID")
  ELSE IF personnelAddress = ZeroAddress THEN Revert(st, "Personnel address cannot be zero")
  ELSE IF ~st.authorizedPersonnel[personnelAddress] THEN Revert(st, "Personnel not authorized")
  ELSE IF st.personnel[personnelAddress].currentIncident # 0 THEN Revert(st, "Personnel already assigned")
  ELSE Commit(
    [st EXCEPT
       !.incidents[incidentId].assignedPersonnel = personnelAddress,
       !.incidents[incidentId].status = "ASSIGNED",
       !.personnel[personnelAddress].currentIncident = incidentId],
    <<PersonnelAssigned(incidentId, personnelAddress),
      StatusUpdated(incidentId, "ASSIGNED")>>, 0)

\* variant: the validIncident modifier is missing
assignPersonnelFn_NoIdCheck(st, sender, incidentId, personnelAddress) ==
  IF ~onlyCommandCenter(st, sender) THEN Revert(st, "Only command center can execute")
  ELSE IF personnelAddress = ZeroAddress THEN Revert(st, "Personnel address cannot be zero")
  ELSE IF ~st.authorizedPersonnel[personnelAddress] THEN Revert(st, "Personnel not authorized")
  ELSE IF ~st.personnel[personnelAddress].isActive THEN Revert(st, "Personnel not active")
  ELSE IF st.personnel[personnelAddress].currentIncident # 0 THEN Revert(st, "Personnel already assigned")
  ELSE Commit(
    [st EXCEPT
       !.incidents[incidentId].assignedPersonnel = personnelAddress,
       !.incidents[incidentId].status = "ASSIGNED",
       !.personnel[personnelAddress].currentIncident = incidentId],
    <<PersonnelAssigned(incidentId, personnelAddress),
      StatusUpdated(incidentId, "ASSIGNED")>>, 0)

\* variant: only a first responder can be assigned
assignPersonnelFn_OnlyFirstResponders(st, sender, incidentId, personnelAddress) ==
  IF ~onlyCommandCenter(st, sender) THEN Revert(st, "Only command center can execute")
  ELSE IF ~validIncident(st, incidentId) THEN Revert(st, "Invalid incident ID")
  ELSE IF personnelAddress = ZeroAddress THEN Revert(st, "Personnel address cannot be zero")
  ELSE IF ~st.authorizedPersonnel[personnelAddress] THEN Revert(st, "Personnel not authorized")
  ELSE IF ~st.personnel[personnelAddress].isActive THEN Revert(st, "Personnel not active")
  ELSE IF st.personnel[personnelAddress].currentIncident # 0 THEN Revert(st, "Personnel already assigned")
  ELSE IF st.personnel[personnelAddress].role # "FIRST_RESPONDER" THEN Revert(st, "Personnel not a responder")
  ELSE Commit(
    [st EXCEPT
       !.incidents[incidentId].assignedPersonnel = personnelAddress,
       !.incidents[incidentId].status = "ASSIGNED",
       !.personnel[personnelAddress].currentIncident = incidentId],
    <<PersonnelAssigned(incidentId, personnelAddress),
      StatusUpdated(incidentId, "ASSIGNED")>>, 0)

\* variant: the two events are emitted in the opposite order
assignPersonnelFn_EventsSwapped(st, sender, incidentId, personnelAddress) ==
  IF ~onlyCommandCenter(st, sender) THEN Revert(st, "Only command center can execute")
  ELSE IF ~validIncident(st, incidentId) THEN Revert(st, "Invalid incident ID")
  ELSE IF personnelAddress = ZeroAddress THEN Revert(st, "Personnel address cannot be zero")
  ELSE IF ~st.authorizedPersonnel[personnelAddress] THEN Revert(st, "Personnel not authorized")
  ELSE IF ~st.personnel[personnelAddress].isActive THEN Revert(st, "Personnel not active")
  ELSE IF st.personnel[personnelAddress].currentIncident # 0 THEN Revert(st, "Personnel already assigned")
  ELSE Commit(
    [st EXCEPT
       !.incidents[incidentId].assignedPersonnel = personnelAddress,
       !.incidents[incidentId].status = "ASSIGNED",
       !.personnel[personnelAddress].currentIncident = incidentId],
    <<StatusUpdated(incidentId, "ASSIGNED"),
      PersonnelAssigned(incidentId, personnelAddress)>>, 0)

assignPersonnelFn(st, sender, incidentId, personnelAddress) ==
  IF ~onlyCommandCenter(st, sender) THEN Revert(st, "Only command center can execute")
  ELSE IF ~validIncident(st, incidentId) THEN Revert(st, "Invalid incident ID")
  ELSE IF personnelAddress = ZeroAddress THEN Revert(st, "Personnel address cannot be zero")
  ELSE IF ~st.authorizedPersonnel[personnelAddress] THEN Revert(st, "Personnel not authorized")
  ELSE IF ~st.personnel[personnelAddress].isActive THEN Revert(st, "Personnel not active")
  ELSE IF st.personnel[personnelAddress].currentIncident # 0 THEN Revert(st, "Personnel already assigned")
  ELSE Commit(
    [st EXCEPT
       !.incidents[incidentId].assignedPersonnel = personnelAddress,
       !.incidents[incidentId].status = "ASSIGNED",
       !.personnel[personnelAddress].currentIncident = incidentId],
    <<PersonnelAssigned(incidentId, personnelAddress),
      StatusUpdated(incidentId, "ASSIGNED")>>, 0)

\* the ordinal of a status in the enum
StatusOrdinal(s) ==
  CASE s = "REPORTED" -> 0
    [] s = "ASSIGNED" -> 1
    [] s = "IN_PROGRESS" -> 2
    [] s = "RESOLVED" -> 3
    [] s = "CLOSED" -> 4

\* variant: a status may only move forward in the enum's order
updateIncidentStatusFn_ForwardOnly(st, sender, ts, incidentId, newStatus) ==
  IF ~onlyAuthorized(st, sender) THEN Revert(st, "Not authorized personnel")
  ELSE IF ~validIncident(st, incidentId) THEN Revert(st, "Invalid incident ID")
  ELSE IF ~(sender = st.incidents[incidentId].assignedPersonnel \/ sender = st.commandCenter)
    THEN Revert(st, "Not authorized to update this incident")
  ELSE IF StatusOrdinal(newStatus) < StatusOrdinal(st.incidents[incidentId].status)
    THEN Revert(st, "Invalid status transition")
  ELSE
    LET s1 == [st EXCEPT !.incidents[incidentId].status = newStatus]
        assignedPersonnel == s1.incidents[incidentId].assignedPersonnel
        s2 == IF newStatus = "RESOLVED" \/ newStatus = "CLOSED"
              THEN LET s1a == [s1 EXCEPT !.incidents[incidentId].resolvedTime = ts]
                   IN IF assignedPersonnel # ZeroAddress
                      THEN [s1a EXCEPT !.personnel[assignedPersonnel].currentIncident = 0]
                      ELSE s1a
              ELSE s1
    IN Commit(s2, <<StatusUpdated(incidentId, newStatus)>>, 0)

\* variant: resolvedTime is written by the first resolution only
updateIncidentStatusFn_SetsOnce(st, sender, ts, incidentId, newStatus) ==
  IF ~onlyAuthorized(st, sender) THEN Revert(st, "Not authorized personnel")
  ELSE IF ~validIncident(st, incidentId) THEN Revert(st, "Invalid incident ID")
  ELSE IF ~(sender = st.incidents[incidentId].assignedPersonnel \/ sender = st.commandCenter)
    THEN Revert(st, "Not authorized to update this incident")
  ELSE
    LET s1 == [st EXCEPT !.incidents[incidentId].status = newStatus]
        assignedPersonnel == s1.incidents[incidentId].assignedPersonnel
        s2 == IF newStatus = "RESOLVED" \/ newStatus = "CLOSED"
              THEN LET s1a == IF s1.incidents[incidentId].resolvedTime = 0
                              THEN [s1 EXCEPT !.incidents[incidentId].resolvedTime = ts]
                              ELSE s1
                   IN IF assignedPersonnel # ZeroAddress
                      THEN [s1a EXCEPT !.personnel[assignedPersonnel].currentIncident = 0]
                      ELSE s1a
              ELSE s1
    IN Commit(s2, <<StatusUpdated(incidentId, newStatus)>>, 0)

\* variant: moving an incident back to REPORTED stamps it as reported anew
updateIncidentStatusFn_RestampsOnReported(st, sender, ts, incidentId, newStatus) ==
  IF ~onlyAuthorized(st, sender) THEN Revert(st, "Not authorized personnel")
  ELSE IF ~validIncident(st, incidentId) THEN Revert(st, "Invalid incident ID")
  ELSE IF ~(sender = st.incidents[incidentId].assignedPersonnel \/ sender = st.commandCenter)
    THEN Revert(st, "Not authorized to update this incident")
  ELSE
    LET s0 == IF newStatus = "REPORTED"
              THEN [st EXCEPT !.incidents[incidentId].reportedTime = ts,
                              !.incidents[incidentId].reportedBy = sender]
              ELSE st
        s1 == [s0 EXCEPT !.incidents[incidentId].status = newStatus]
        assignedPersonnel == s1.incidents[incidentId].assignedPersonnel
        s2 == IF newStatus = "RESOLVED" \/ newStatus = "CLOSED"
              THEN LET s1a == [s1 EXCEPT !.incidents[incidentId].resolvedTime = ts]
                   IN IF assignedPersonnel # ZeroAddress
                      THEN [s1a EXCEPT !.personnel[assignedPersonnel].currentIncident = 0]
                      ELSE s1a
              ELSE s1
    IN Commit(s2, <<StatusUpdated(incidentId, newStatus)>>, 0)

\* variant: only RESOLVED stamps the resolution time, CLOSED does not
updateIncidentStatusFn_StampsOnlyResolved(st, sender, ts, incidentId, newStatus) ==
  IF ~onlyAuthorized(st, sender) THEN Revert(st, "Not authorized personnel")
  ELSE IF ~validIncident(st, incidentId) THEN Revert(st, "Invalid incident ID")
  ELSE IF ~(sender = st.incidents[incidentId].assignedPersonnel \/ sender = st.commandCenter)
    THEN Revert(st, "Not authorized to update this incident")
  ELSE
    LET s1 == [st EXCEPT !.incidents[incidentId].status = newStatus]
        assignedPersonnel == s1.incidents[incidentId].assignedPersonnel
        s2 == IF newStatus = "RESOLVED" \/ newStatus = "CLOSED"
              THEN LET s1a == IF newStatus = "RESOLVED"
                              THEN [s1 EXCEPT !.incidents[incidentId].resolvedTime = ts]
                              ELSE s1
                   IN IF assignedPersonnel # ZeroAddress
                      THEN [s1a EXCEPT !.personnel[assignedPersonnel].currentIncident = 0]
                      ELSE s1a
              ELSE s1
    IN Commit(s2, <<StatusUpdated(incidentId, newStatus)>>, 0)

\* variant: every authorized caller may update every incident
updateIncidentStatusFn_AnyAuthorized(st, sender, ts, incidentId, newStatus) ==
  IF ~onlyAuthorized(st, sender) THEN Revert(st, "Not authorized personnel")
  ELSE IF ~validIncident(st, incidentId) THEN Revert(st, "Invalid incident ID")
  ELSE
    LET s1 == [st EXCEPT !.incidents[incidentId].status = newStatus]
        assignedPersonnel == s1.incidents[incidentId].assignedPersonnel
        s2 == IF newStatus = "RESOLVED" \/ newStatus = "CLOSED"
              THEN LET s1a == [s1 EXCEPT !.incidents[incidentId].resolvedTime = ts]
                   IN IF assignedPersonnel # ZeroAddress
                      THEN [s1a EXCEPT !.personnel[assignedPersonnel].currentIncident = 0]
                      ELSE s1a
              ELSE s1
    IN Commit(s2, <<StatusUpdated(incidentId, newStatus)>>, 0)

\* variant: resolving also clears the incident's assignedPersonnel
updateIncidentStatusFn_ClearsAssignee(st, sender, ts, incidentId, newStatus) ==
  IF ~onlyAuthorized(st, sender) THEN Revert(st, "Not authorized personnel")
  ELSE IF ~validIncident(st, incidentId) THEN Revert(st, "Invalid incident ID")
  ELSE IF ~(sender = st.incidents[incidentId].assignedPersonnel \/ sender = st.commandCenter)
    THEN Revert(st, "Not authorized to update this incident")
  ELSE
    LET s1 == [st EXCEPT !.incidents[incidentId].status = newStatus]
        assignedPersonnel == s1.incidents[incidentId].assignedPersonnel
        s2 == IF newStatus = "RESOLVED" \/ newStatus = "CLOSED"
              THEN LET s1a == [s1 EXCEPT !.incidents[incidentId].resolvedTime = ts]
                   IN IF assignedPersonnel # ZeroAddress
                      THEN [s1a EXCEPT
                              !.personnel[assignedPersonnel].currentIncident = 0,
                              !.incidents[incidentId].assignedPersonnel = ZeroAddress]
                      ELSE s1a
              ELSE s1
    IN Commit(s2, <<StatusUpdated(incidentId, newStatus)>>, 0)

updateIncidentStatusFn(st, sender, ts, incidentId, newStatus) ==
  IF ~onlyAuthorized(st, sender) THEN Revert(st, "Not authorized personnel")
  ELSE IF ~validIncident(st, incidentId) THEN Revert(st, "Invalid incident ID")
  ELSE IF ~(sender = st.incidents[incidentId].assignedPersonnel \/ sender = st.commandCenter)
    THEN Revert(st, "Not authorized to update this incident")
  ELSE
    LET s1 == [st EXCEPT !.incidents[incidentId].status = newStatus]
        assignedPersonnel == s1.incidents[incidentId].assignedPersonnel
        s2 == IF newStatus = "RESOLVED" \/ newStatus = "CLOSED"
              THEN LET s1a == [s1 EXCEPT !.incidents[incidentId].resolvedTime = ts]
                   IN IF assignedPersonnel # ZeroAddress
                      THEN [s1a EXCEPT !.personnel[assignedPersonnel].currentIncident = 0]
                      ELSE s1a
              ELSE s1
    IN Commit(s2, <<StatusUpdated(incidentId, newStatus)>>, 0)

\* variant: deactivation only lowers the isActive flag
deactivatePersonnelFn_OnlyFlag(st, sender, personnelAddress) ==
  IF ~onlyCommandCenter(st, sender) THEN Revert(st, "Only command center can execute")
  ELSE IF personnelAddress = ZeroAddress THEN Revert(st, "Personnel address cannot be zero")
  ELSE Commit([st EXCEPT !.personnel[personnelAddress].isActive = FALSE], <<>>, 0)

\* variant: the incident keeps pointing at the deactivated person
deactivatePersonnelFn_KeepsPointer(st, sender, personnelAddress) ==
  IF ~onlyCommandCenter(st, sender) THEN Revert(st, "Only command center can execute")
  ELSE IF personnelAddress = ZeroAddress THEN Revert(st, "Personnel address cannot be zero")
  ELSE
    LET s1 == [st EXCEPT !.personnel[personnelAddress].isActive = FALSE]
        assignedIncident == s1.personnel[personnelAddress].currentIncident
        s2 == IF assignedIncident # 0
              THEN [s1 EXCEPT !.personnel[personnelAddress].currentIncident = 0]
              ELSE s1
    IN Commit(s2, <<>>, 0)

\* variant: deactivation also revokes the authorization
deactivatePersonnelFn_RevokesAuthorization(st, sender, personnelAddress) ==
  IF ~onlyCommandCenter(st, sender) THEN Revert(st, "Only command center can execute")
  ELSE IF personnelAddress = ZeroAddress THEN Revert(st, "Personnel address cannot be zero")
  ELSE
    LET s1 == [st EXCEPT !.personnel[personnelAddress].isActive = FALSE,
                         !.authorizedPersonnel[personnelAddress] = FALSE]
        assignedIncident == s1.personnel[personnelAddress].currentIncident
        s2 == IF assignedIncident # 0
              THEN [s1 EXCEPT
                      !.incidents[assignedIncident].assignedPersonnel = ZeroAddress,
                      !.personnel[personnelAddress].currentIncident = 0]
              ELSE s1
    IN Commit(s2, <<>>, 0)

\* variant: the incident a deactivated person leaves goes back to REPORTED
deactivatePersonnelFn_ResetsStatus(st, sender, personnelAddress) ==
  IF ~onlyCommandCenter(st, sender) THEN Revert(st, "Only command center can execute")
  ELSE IF personnelAddress = ZeroAddress THEN Revert(st, "Personnel address cannot be zero")
  ELSE
    LET s1 == [st EXCEPT !.personnel[personnelAddress].isActive = FALSE]
        assignedIncident == s1.personnel[personnelAddress].currentIncident
        s2 == IF assignedIncident # 0
              THEN [s1 EXCEPT
                      !.incidents[assignedIncident].assignedPersonnel = ZeroAddress,
                      !.incidents[assignedIncident].status = "REPORTED",
                      !.personnel[personnelAddress].currentIncident = 0]
              ELSE s1
    IN Commit(s2, <<>>, 0)

deactivatePersonnelFn(st, sender, personnelAddress) ==
  IF ~onlyCommandCenter(st, sender) THEN Revert(st, "Only command center can execute")
  ELSE IF personnelAddress = ZeroAddress THEN Revert(st, "Personnel address cannot be zero")
  ELSE
    LET s1 == [st EXCEPT !.personnel[personnelAddress].isActive = FALSE]
        assignedIncident == s1.personnel[personnelAddress].currentIncident
        s2 == IF assignedIncident # 0
              THEN [s1 EXCEPT
                      !.incidents[assignedIncident].assignedPersonnel = ZeroAddress,
                      !.personnel[personnelAddress].currentIncident = 0]
              ELSE s1
    IN Commit(s2, <<>>, 0)

\* variant: the transfer does not authorize the new command center
transferCommandCenterFn_NoGrant(st, sender, newCommandCenter) ==
  IF ~onlyCommandCenter(st, sender) THEN Revert(st, "Only command center can execute")
  ELSE IF newCommandCenter = ZeroAddress THEN Revert(st, "New command center cannot be zero address")
  ELSE IF newCommandCenter = st.commandCenter THEN Revert(st, "New command center must be different")
  ELSE
    LET oldCommandCenter == st.commandCenter IN
    Commit(
      [st EXCEPT !.commandCenter = newCommandCenter],
      <<CommandCenterTransferred(oldCommandCenter, newCommandCenter)>>, 0)

\* variant: the transfer revokes the old command center's authorization
transferCommandCenterFn_RevokesOld(st, sender, newCommandCenter) ==
  IF ~onlyCommandCenter(st, sender) THEN Revert(st, "Only command center can execute")
  ELSE IF newCommandCenter = ZeroAddress THEN Revert(st, "New command center cannot be zero address")
  ELSE IF newCommandCenter = st.commandCenter THEN Revert(st, "New command center must be different")
  ELSE
    LET oldCommandCenter == st.commandCenter IN
    Commit(
      [st EXCEPT !.commandCenter = newCommandCenter,
                 !.authorizedPersonnel[oldCommandCenter] = FALSE,
                 !.authorizedPersonnel[newCommandCenter] = TRUE],
      <<CommandCenterTransferred(oldCommandCenter, newCommandCenter)>>, 0)

transferCommandCenterFn(st, sender, newCommandCenter) ==
  IF ~onlyCommandCenter(st, sender) THEN Revert(st, "Only command center can execute")
  ELSE IF newCommandCenter = ZeroAddress THEN Revert(st, "New command center cannot be zero address")
  ELSE IF newCommandCenter = st.commandCenter THEN Revert(st, "New command center must be different")
  ELSE
    LET oldCommandCenter == st.commandCenter IN
    Commit(
      [st EXCEPT !.commandCenter = newCommandCenter,
                 !.authorizedPersonnel[newCommandCenter] = TRUE],
      <<CommandCenterTransferred(oldCommandCenter, newCommandCenter)>>, 0)

getTotalIncidents(st) == st.incidentCounter

\* a view: reverts on an invalid id, else returns seven fields of the record
getIncident(st, incidentId) ==
  IF ~validIncident(st, incidentId) THEN Revert(st, "Invalid incident ID")
  ELSE LET incident == st.incidents[incidentId] IN
    Commit(st, <<>>,
      <<incident.id, incident.description, incident.location, incident.status,
        incident.assignedPersonnel, incident.reportedTime, incident.resolvedTime>>)

\* ---------------------------------------------------------------- transactions
\* what a transaction leaves to observe: a committed one its caller, arguments,
\* events and return value, a reverted one its reason
Receipt(op, sender, args, res) ==
  IF res.ok
  THEN [op |-> op, ok |-> TRUE, sender |-> sender, args |-> args,
        events |-> res.events, ret |-> res.ret]
  ELSE [op |-> op, ok |-> FALSE, reason |-> res.reason, events |-> res.events]

\* one transaction: storage takes the outcome's storage (the storage before
\* the call when it reverted) and the receipt is recorded; remaining is the
\* number of transactions the run may still commit, and calls are made while
\* it is positive
Transact(op, sender, args, res) ==
  /\ remaining > 0
  /\ commandCenter' = res.st.commandCenter
  /\ incidentCounter' = res.st.incidentCounter
  /\ incidents' = res.st.incidents
  /\ personnel' = res.st.personnel
  /\ authorizedPersonnel' = res.st.authorizedPersonnel
  /\ lastTx' = Receipt(op, sender, args, res)
  /\ remaining' = IF res.ok THEN remaining - 1 ELSE remaining
  /\ UNCHANGED now

registerPersonnel ==
  \E sender \in Addresses, p \in AllAddresses, reg \in RegistrationInputs :
    Transact("registerPersonnel", sender,
             [personnel |-> p, name |-> reg.name, role |-> reg.role],
             registerPersonnelFn(Storage, sender, p, reg.name, reg.role))

reportIncident ==
  \E sender \in Addresses,
     description \in DescriptionInputs, location \in LocationInputs :
    /\ incidentCounter < MaxIncidents
    /\ Transact("reportIncident", sender,
                [description |-> description, location |-> location],
                reportIncidentFn(Storage, sender, now, description, location))

assignPersonnel ==
  \E sender \in Addresses, incidentId \in IncidentIdInputs, p \in AllAddresses :
    Transact("assignPersonnel", sender,
             [incidentId |-> incidentId, personnelAddress |-> p],
             assignPersonnelFn(Storage, sender, incidentId, p))

updateIncidentStatus ==
  \E sender \in Addresses, incidentId \in IncidentIdInputs,
     newStatus \in IncidentStatus :
    Transact("updateIncidentStatus", sender,
             [incidentId |-> incidentId, newStatus |-> newStatus],
             updateIncidentStatusFn(Storage, sender, now, incidentId, newStatus))

deactivatePersonnel ==
  \E sender \in Addresses, p \in AllAddresses :
    Transact("deactivatePersonnel", sender,
             [personnelAddress |-> p],
             deactivatePersonnelFn(Storage, sender, p))

transferCommandCenter ==
  \E sender \in Addresses, newCommandCenter \in AllAddresses :
    Transact("transferCommandCenter", sender,
             [newCommandCenter |-> newCommandCenter],
             transferCommandCenterFn(Storage, sender, newCommandCenter))

\* block.timestamp moves on between transactions
advanceTime ==
  /\ \E ts \in Timestamps : ts > now /\ now' = ts
  /\ UNCHANGED <<commandCenter, incidentCounter, incidents, personnel,
                 authorizedPersonnel, lastTx, remaining>>

\* state after the constructor ran with msg.sender = Deployer
Deployed ==
  /\ commandCenter = Deployer
  /\ incidentCounter = 0
  /\ incidents = [i \in IncidentKeys |-> EmptyIncident]
  /\ personnel = [a \in AllAddresses |-> EmptyPersonnel]
  /\ authorizedPersonnel = [a \in AllAddresses |-> a = Deployer]
  /\ now = 1
  /\ lastTx = [op |-> "constructor", ok |-> TRUE, sender |-> Deployer,
               args |-> <<>>, events |-> <<>>, ret |-> 0]

Init == Deployed /\ remaining = MaxCommitted

InitBlock == Deployed /\ remaining = MaxBlockCommitted

InitShort == Deployed /\ remaining = MaxShortCommitted

\* the transactions of one block: block.timestamp stays as it is
NextInBlock ==
  \/ registerPersonnel
  \/ reportIncident
  \/ assignPersonnel
  \/ updateIncidentStatus
  \/ deactivatePersonnel
  \/ transferCommandCenter

Next ==
  \/ NextInBlock
  \/ advanceTime

Spec == Init /\ [][Next]_vars

\* longer runs of transactions that all land in the block of the deployment
SpecBlock == InitBlock /\ [][NextInBlock]_vars

\* short runs, for properties that compare every call on many pairs of states
SpecShort == InitShort /\ [][Next]_vars

\* ================================================================ properties
ExistingIncidents == 1 .. incidentCounter

ActiveStatus == {"ASSIGNED", "IN_PROGRESS"}

\* the outcome is a rejection: no storage change and no event
Rejected(res) == ~res.ok /\ res.st = Storage /\ res.events = <<>>

\* the preconditions of the six entry points, on the current state
registerPersonnelPre(sender, p) ==
  sender = commandCenter /\ p # ZeroAddress

reportIncidentPre(sender) == authorizedPersonnel[sender]

assignPersonnelPre(sender, incidentId, p) ==
  /\ sender = commandCenter
  /\ incidentId \in ExistingIncidents
  /\ p # ZeroAddress
  /\ authorizedPersonnel[p]
  /\ personnel[p].isActive
  /\ personnel[p].currentIncident = 0

updateIncidentStatusPre(sender, incidentId) ==
  /\ authorizedPersonnel[sender]
  /\ incidentId \in ExistingIncidents
  /\ (sender = commandCenter \/ sender = incidents[incidentId].assignedPersonnel)

deactivatePersonnelPre(sender, p) ==
  sender = commandCenter /\ p # ZeroAddress

transferCommandCenterPre(sender, newCommandCenter) ==
  /\ sender = commandCenter
  /\ newCommandCenter # ZeroAddress
  /\ newCommandCenter # commandCenter

\* a step in which a transaction committed / reverted
CommitStep == remaining' = remaining - 1

RevertStep == remaining' = remaining /\ now' = now /\ ~lastTx'.ok

\* ---------------------------------------------------------------- C1
ViolatingCallsAreRejected ==
  \A sender \in Addresses :
    /\ \A p \in AllAddresses, reg \in RegistrationInputs :
         ~registerPersonnelPre(sender, p) =>
           Rejected(registerPersonnelFn(Storage, sender, p, reg.name, reg.role))
    /\ \A d \in DescriptionInputs, l \in LocationInputs :
         ~reportIncidentPre(sender) =>
           Rejected(reportIncidentFn(Storage, sender, now, d, l))
    /\ \A i \in IncidentIdInputs, p \in AllAddresses :
         ~assignPersonnelPre(sender, i, p) =>
           Rejected(assignPersonnelFn(Storage, sender, i, p))
    /\ \A i \in IncidentIdInputs, s \in IncidentStatus :
         ~updateIncidentStatusPre(sender, i) =>
           Rejected(updateIncidentStatusFn(Storage, sender, now, i, s))
    /\ \A p \in AllAddresses :
         ~deactivatePersonnelPre(sender, p) =>
           Rejected(deactivatePersonnelFn(Storage, sender, p))
    /\ \A n \in AllAddresses :
         ~transferCommandCenterPre(sender, n) =>
           Rejected(transferCommandCenterFn(Storage, sender, n))

RevertChangesNothing ==
  RevertStep => Storage' = Storage /\ lastTx'.events = <<>>

\* C1: a call of a mutating entry point that violates one of its preconditions
\* is rejected, and a rejected call leaves commandCenter, incidentCounter,
\* incidents, personnel and authorizedPersonnel as they were and emits no event.
C1_RejectedCallsChangeNothing ==
  []ViolatingCallsAreRejected /\ [][RevertChangesNothing]_vars

\* an assignment to an incident id beyond the counter has just been rejected,
\* with a registered person and an incident in place
C1_Witness ==
  /\ ~lastTx.ok
  /\ lastTx.op = "assignPersonnel"
  /\ lastTx.reason = "Invalid incident ID"
  /\ incidentCounter > 0
  /\ \E p \in Addresses : personnel[p].isActive

\* ---------------------------------------------------------------- C2
ActiveAssignments(p) ==
  {i \in ExistingIncidents :
     incidents[i].assignedPersonnel = p /\ incidents[i].status \in ActiveStatus}

\* C2: for every address P at most one incident has assignedPersonnel = P and
\* status ASSIGNED or IN_PROGRESS.
C2_AtMostOneActiveAssignment ==
  \A p \in Addresses : Cardinality(ActiveAssignments(p)) <= 1

\* ---------------------------------------------------------------- C3
IneligibleTargetsAreRejected ==
  \A i \in ExistingIncidents, p \in Addresses :
    (~authorizedPersonnel[p] \/ ~personnel[p].isActive
       \/ personnel[p].currentIncident # 0) =>
      Rejected(assignPersonnelFn(Storage, commandCenter, i, p))

PointedBackIncidents(p) ==
  {i \in ExistingIncidents :
     incidents[i].assignedPersonnel = p /\ personnel[p].currentIncident = i}

AtMostOnePointedBack ==
  \A p \in Addresses : Cardinality(PointedBackIncidents(p)) <= 1

InactiveNeverAssigned ==
  (CommitStep /\ lastTx'.op = "assignPersonnel") =>
    /\ personnel[lastTx'.args.personnelAddress].isActive
    /\ authorizedPersonnel[lastTx'.args.personnelAddress]
    /\ personnel[lastTx'.args.personnelAddress].currentIncident = 0

\* C3: assignPersonnel by the command center on a valid incident is rejected,
\* state unchanged, when the target is not authorized, not active or has a
\* non-zero currentIncident; a committed assignPersonnel never has an inactive
\* target; and at most one incident is assigned to P with P's currentIncident
\* pointing back to it.
C3_AssignRejectsIneligibleTarget ==
  /\ [](IneligibleTargetsAreRejected /\ AtMostOnePointedBack)
  /\ [][InactiveNeverAssigned]_vars

\* a second assignment of a person who holds an incident has just been rejected
C3_Witness ==
  /\ ~lastTx.ok
  /\ lastTx.op = "assignPersonnel"
  /\ lastTx.reason = "Personnel already assigned"
  /\ \E p \in Addresses :
       /\ personnel[p].currentIncident # 0
       /\ incidents[personnel[p].currentIncident].assignedPersonnel = p

\* ---------------------------------------------------------------- C4
\* C4: updateIncidentStatus succeeds only for an authorized caller on a valid
\* incident who is the command center or the incident's assignedPersonnel; any
\* other call is rejected with the state unchanged, so an incident without an
\* assignee is updated by the command center only.
C4_UpdateOnlyByCommandCenterOrAssignee ==
  \A sender \in Addresses, i \in IncidentIdInputs, s \in IncidentStatus :
    LET res == updateIncidentStatusFn(Storage, sender, now, i, s) IN
    /\ res.ok =>
         /\ authorizedPersonnel[sender]
         /\ i \in ExistingIncidents
         /\ (sender = commandCenter \/ sender = incidents[i].assignedPersonnel)
         /\ (incidents[i].assignedPersonnel = ZeroAddress => sender = commandCenter)
    /\ ~res.ok => Rejected(res)

\* an update has just been refused although an authorized address other than
\* the command center exists and an incident is there to update
C4_Witness ==
  /\ ~lastTx.ok
  /\ lastTx.op = "updateIncidentStatus"
  /\ lastTx.reason = "Not authorized to update this incident"
  /\ \E b \in Addresses, i \in ExistingIncidents :
       /\ authorizedPersonnel[b]
       /\ b # commandCenter
       /\ b # incidents[i].assignedPersonnel

\* ---------------------------------------------------------------- C5
CommandCenterOnlyCalls(sender) ==
  {registerPersonnelFn(Storage, sender, p, reg.name, reg.role) :
     p \in AllAddresses, reg \in RegistrationInputs}
  \cup {assignPersonnelFn(Storage, sender, i, p) :
          i \in IncidentIdInputs, p \in AllAddresses}
  \cup {deactivatePersonnelFn(Storage, sender, p) : p \in AllAddresses}
  \cup {transferCommandCenterFn(Storage, sender, n) : n \in AllAddresses}

AuthorizedOnlyCalls(sender) ==
  {reportIncidentFn(Storage, sender, now, d, l) :
     d \in DescriptionInputs, l \in LocationInputs}
  \cup {updateIncidentStatusFn(Storage, sender, now, i, s) :
          i \in IncidentIdInputs, s \in IncidentStatus}

GuardedByCaller ==
  \A sender \in Addresses :
    /\ \A res \in CommandCenterOnlyCalls(sender) :
         res.ok => sender = commandCenter
    /\ \A res \in AuthorizedOnlyCalls(sender) :
         res.ok => authorizedPersonnel[sender]

FormerCommandCenterAfterTransfer ==
  (lastTx.ok /\ lastTx.op = "transferCommandCenter") =>
    LET old == lastTx.sender IN
    /\ old # commandCenter
    /\ \A res \in CommandCenterOnlyCalls(old) : ~res.ok
    /\ authorizedPersonnel[old]
    /\ \A d \in DescriptionInputs, l \in LocationInputs :
         reportIncidentFn(Storage, old, now, d, l).ok

\* C5: registerPersonnel, assignPersonnel, deactivatePersonnel and
\* transferCommandCenter succeed only for caller = commandCenter, reportIncident
\* and updateIncidentStatus only for an authorized caller; right after a
\* transfer the former command center is refused by the first four, is still
\* authorized and can report an incident.
C5_CallerGuards == GuardedByCaller /\ FormerCommandCenterAfterTransfer

\* the command center has just been transferred away from the deployer
C5_Witness ==
  /\ lastTx.ok
  /\ lastTx.op = "transferCommandCenter"
  /\ lastTx.sender = Deployer
  /\ commandCenter # Deployer
  /\ authorizedPersonnel[Deployer]

\* ---------------------------------------------------------------- C6
SingleCommandCenter ==
  /\ commandCenter \in Addresses
  /\ Cardinality({a \in AllAddresses : onlyCommandCenter(Storage, a)}) = 1

TransferEffect ==
  \A sender \in Addresses, n \in AllAddresses :
    LET res == transferCommandCenterFn(Storage, sender, n) IN
    res.ok =>
      /\ res.st.commandCenter = n
      /\ res.st.authorizedPersonnel[n]
      /\ res.st.authorizedPersonnel[commandCenter]
      /\ res.events = <<CommandCenterTransferred(commandCenter, n)>>

CommandCenterChangesByTransferOnly ==
  commandCenter' # commandCenter =>
    /\ CommitStep
    /\ lastTx'.op = "transferCommandCenter"
    /\ lastTx'.sender = commandCenter
    /\ lastTx'.args.newCommandCenter = commandCenter'
    /\ lastTx'.events = <<CommandCenterTransferred(commandCenter, commandCenter')>>
    /\ authorizedPersonnel'[commandCenter']
    /\ authorizedPersonnel'[commandCenter]

\* C6: exactly one address is the command center in every state; it changes
\* only by a committed transferCommandCenter(new), which in the same step makes
\* new the command center, authorizes new, leaves the old one authorized and
\* emits CommandCenterTransferred(old, new).
C6_SingleCommandCenter ==
  /\ [](SingleCommandCenter /\ TransferEffect)
  /\ [][CommandCenterChangesByTransferOnly]_vars

\* the command center has been handed on by an address other than the deployer
C6_Witness ==
  /\ lastTx.ok
  /\ lastTx.op = "transferCommandCenter"
  /\ lastTx.sender # Deployer
  /\ commandCenter = lastTx.args.newCommandCenter
  /\ authorizedPersonnel[lastTx.sender]

\* ---------------------------------------------------------------- C7
CounterStep ==
  LET before == getTotalIncidents(Storage)
      after == getTotalIncidents(Storage')
  IN /\ after >= before
     /\ (CommitStep /\ lastTx'.op = "reportIncident") =>
          (after = before + 1 /\ lastTx'.ret = after)
     /\ after # before => (CommitStep /\ lastTx'.op = "reportIncident")

\* C7: getTotalIncidents() never decreases; a committed reportIncident raises
\* it by exactly 1 and returns the new value; nothing else changes it.
C7_MonotonicIdentity == [][CounterStep]_vars

\* the second incident has just been reported
C7_Witness ==
  /\ lastTx.ok
  /\ lastTx.op = "reportIncident"
  /\ lastTx.ret = 2
  /\ getTotalIncidents(Storage) = 2

\* ---------------------------------------------------------------- C8
\* C8: a committed updateIncidentStatus(id, RESOLVED or CLOSED) on an incident
\* assigned to a non-zero P leaves P's currentIncident 0 and the incident's
\* assignedPersonnel still P.
C8_ResolutionFreesAssignee ==
  \A sender \in Addresses, i \in ExistingIncidents, s \in {"RESOLVED", "CLOSED"} :
    LET res == updateIncidentStatusFn(Storage, sender, now, i, s)
        p == incidents[i].assignedPersonnel
    IN (res.ok /\ p # ZeroAddress) =>
         /\ res.st.personnel[p].currentIncident = 0
         /\ res.st.incidents[i].assignedPersonnel = p

\* the assignee has just resolved or closed the incident assigned to them
C8_Witness ==
  /\ lastTx.ok
  /\ lastTx.op = "updateIncidentStatus"
  /\ lastTx.args.newStatus \in {"RESOLVED", "CLOSED"}
  /\ incidents[lastTx.args.incidentId].assignedPersonnel = lastTx.sender
  /\ incidents[lastTx.args.incidentId].status = lastTx.args.newStatus
  /\ personnel[lastTx.sender].isActive
  /\ personnel[lastTx.sender].currentIncident = 0

\* ---------------------------------------------------------------- C9
\* C9: a committed deactivatePersonnel(A) leaves A inactive with
\* currentIncident 0, and the incident A's currentIncident named before the
\* call, if any, without an assignee.
C9_DeactivationClearsAssignment ==
  \A sender \in Addresses, a \in AllAddresses :
    LET res == deactivatePersonnelFn(Storage, sender, a)
        k == personnel[a].currentIncident
    IN res.ok =>
         /\ ~res.st.personnel[a].isActive
         /\ res.st.personnel[a].currentIncident = 0
         /\ k # 0 => res.st.incidents[k].assignedPersonnel = ZeroAddress

\* a registered person has just been deactivated and an incident in status
\* ASSIGNED is left without an assignee
C9_Witness ==
  /\ lastTx.ok
  /\ lastTx.op = "deactivatePersonnel"
  /\ personnel[lastTx.args.personnelAddress].walletAddress = lastTx.args.personnelAddress
  /\ ~personnel[lastTx.args.personnelAddress].isActive
  /\ personnel[lastTx.args.personnelAddress].currentIncident = 0
  /\ \E k \in ExistingIncidents :
       /\ incidents[k].status = "ASSIGNED"
       /\ incidents[k].assignedPersonnel = ZeroAddress

\* ---------------------------------------------------------------- C10
AuthorizationKept ==
  \A x \in AllAddresses : authorizedPersonnel[x] => authorizedPersonnel'[x]

DeactivatedCanStillReport ==
  \A a \in Addresses :
    authorizedPersonnel[a] =>
      LET res == deactivatePersonnelFn(Storage, commandCenter, a) IN
      /\ res.ok
      /\ res.st.authorizedPersonnel[a]
      /\ \A d \in DescriptionInputs, l \in LocationInputs :
           reportIncidentFn(res.st, a, now, d, l).ok

\* C10: once authorizedPersonnel[X] is true it stays true in every later
\* state; deactivatePersonnel(A) leaves A authorized, so A can still report.
C10_AuthorizationNeverShrinks ==
  []DeactivatedCanStillReport /\ [][AuthorizationKept]_vars

\* a registered person who is no longer active has just reported an incident
C10_Witness ==
  /\ lastTx.ok
  /\ lastTx.op = "reportIncident"
  /\ lastTx.sender # commandCenter
  /\ personnel[lastTx.sender].walletAddress = lastTx.sender
  /\ ~personnel[lastTx.sender].isActive
  /\ authorizedPersonnel[lastTx.sender]

\* ---------------------------------------------------------------- C11
\* the fields of an incident that an assignment does not write
IncidentFrameOfAssign(old, new) ==
  /\ new.id = old.id
  /\ new.description = old.description
  /\ new.location = old.location
  /\ new.reportedTime = old.reportedTime
  /\ new.resolvedTime = old.resolvedTime
  /\ new.reportedBy = old.reportedBy

\* the fields of a personnel record that an assignment does not write
PersonnelFrameOfAssign(old, new) ==
  /\ new.walletAddress = old.walletAddress
  /\ new.name = old.name
  /\ new.role = old.role
  /\ new.isActive = old.isActive

AssignWritesThreeFieldsAndTwoEvents ==
  \A sender \in Addresses, id \in IncidentIdInputs, P \in AllAddresses :
    LET res == assignPersonnelFn(Storage, sender, id, P) IN
    res.ok =>
      /\ res.st.incidents[id].assignedPersonnel = P
      /\ res.st.incidents[id].status = "ASSIGNED"
      /\ res.st.personnel[P].currentIncident = id
      /\ IncidentFrameOfAssign(incidents[id], res.st.incidents[id])
      /\ PersonnelFrameOfAssign(personnel[P], res.st.personnel[P])
      /\ \A j \in IncidentKeys \ {id} : res.st.incidents[j] = incidents[j]
      /\ \A q \in AllAddresses \ {P} : res.st.personnel[q] = personnel[q]
      /\ res.st.commandCenter = commandCenter
      /\ res.st.incidentCounter = incidentCounter
      /\ res.st.authorizedPersonnel = authorizedPersonnel
      /\ res.events = <<PersonnelAssigned(id, P), StatusUpdated(id, "ASSIGNED")>>

\* C11: a successful assignPersonnel(id, P) sets incidents[id].assignedPersonnel
\* to P, incidents[id].status to ASSIGNED and P's currentIncident to id, leaves
\* every other field, record and variable of the state as it was, and emits
\* exactly PersonnelAssigned(id, P) followed by StatusUpdated(id, ASSIGNED).
C11_AssignEffectAndEvents == []AssignWritesThreeFieldsAndTwoEvents

\* the second incident has just been assigned to a person while the first one
\* stays unassigned, and the receipt carries the two events in order
C11_Witness ==
  /\ lastTx.ok
  /\ lastTx.op = "assignPersonnel"
  /\ lastTx.args.incidentId = 2
  /\ incidents[2].assignedPersonnel = lastTx.args.personnelAddress
  /\ incidents[2].status = "ASSIGNED"
  /\ personnel[lastTx.args.personnelAddress].currentIncident = 2
  /\ incidents[1].status = "REPORTED"
  /\ Len(lastTx.events) = 2
  /\ lastTx.events[1].event = "PersonnelAssigned"
  /\ lastTx.events[2].event = "StatusUpdated"

\* ---------------------------------------------------------------- C12
\* A is registered in st and its record carries the values of one registration
RegisteredAs(st, A, name, role) ==
  /\ st.personnel[A].name = name
  /\ st.personnel[A].role = role
  /\ st.personnel[A].isActive
  /\ st.personnel[A].currentIncident = 0
  /\ st.authorizedPersonnel[A]

RegistrationWritesRecord ==
  \A sender \in Addresses, A \in AllAddresses, first \in RegistrationInputs :
    LET res == registerPersonnelFn(Storage, sender, A, first.name, first.role) IN
    res.ok =>
      /\ RegisteredAs(res.st, A, first.name, first.role)
      /\ \A second \in RegistrationInputs :
           LET again == registerPersonnelFn(res.st, sender, A, second.name, second.role)
           IN again.ok /\ RegisteredAs(again.st, A, second.name, second.role)

\* C12: a successful registerPersonnel(A, name, role) leaves A with that name
\* and role, isActive true, currentIncident 0 and authorizedPersonnel[A] true
\* whatever A's record was before, and a second registration of the same
\* address overwrites these fields with the values of the second call.
C12_RegisterOverwritesRecord == []RegistrationWritesRecord

\* a person who had reported an incident under an earlier registration has just
\* been registered again and carries the values of the last call
C12_Witness ==
  /\ lastTx.ok
  /\ lastTx.op = "registerPersonnel"
  /\ lastTx.args.personnel # commandCenter
  /\ commandCenter = Deployer
  /\ RegisteredAs(Storage, lastTx.args.personnel, lastTx.args.name, lastTx.args.role)
  /\ lastTx.args.name = "bob"
  /\ \E i \in ExistingIncidents : incidents[i].reportedBy = lastTx.args.personnel

\* ---------------------------------------------------------------- C13
ReRegistrationWritesNoIncident ==
  \A A \in Addresses, reg \in RegistrationInputs :
    LET k   == personnel[A].currentIncident
        res == registerPersonnelFn(Storage, commandCenter, A, reg.name, reg.role)
    IN k # 0 =>
         /\ res.ok
         /\ res.st.personnel[A].currentIncident = 0
         /\ res.st.incidents[k] = incidents[k]
         /\ res.st.incidents[k].status = incidents[k].status
         /\ (incidents[k].assignedPersonnel = A =>
               res.st.incidents[k].assignedPersonnel = A)
         /\ res.st.incidents = incidents

\* C13: registering again a person A whose currentIncident is a non-zero
\* incident k sets A's currentIncident to 0 and leaves incidents[k] (and every
\* other incident) exactly as it was: an incident that named A as its
\* assignedPersonnel still names A, and its status is the one it had.
C13_ReRegistrationLeavesIncident == []ReRegistrationWritesNoIncident

\* a person has just been registered again while an incident is ASSIGNED to
\* them: their currentIncident is 0 and the incident still names them
C13_Witness ==
  /\ lastTx.ok
  /\ lastTx.op = "registerPersonnel"
  /\ personnel[lastTx.args.personnel].currentIncident = 0
  /\ \E k \in ExistingIncidents :
       /\ incidents[k].assignedPersonnel = lastTx.args.personnel
       /\ incidents[k].status = "ASSIGNED"
       /\ incidents[k].resolvedTime = 0

\* ---------------------------------------------------------------- C14
ReportCreatesIncident ==
  (CommitStep /\ lastTx'.op = "reportIncident") =>
    LET id == incidentCounter'
        C  == lastTx'.sender
        description == lastTx'.args.description
        location == lastTx'.args.location
    IN /\ id = incidentCounter + 1
       /\ lastTx'.ret = id
       /\ incidents'[id].id = id
       /\ incidents'[id].description = description
       /\ incidents'[id].location = location
       /\ incidents'[id].status = "REPORTED"
       /\ incidents'[id].assignedPersonnel = ZeroAddress
       /\ incidents'[id].reportedTime = now
       /\ incidents'[id].resolvedTime = 0
       /\ incidents'[id].reportedBy = C
       /\ lastTx'.events = <<IncidentReported(id, description, location)>>
       /\ \A j \in ExistingIncidents : incidents'[j] = incidents[j]
       /\ personnel' = personnel

\* C14: a successful reportIncident by caller C creates the incident whose id
\* is the new incidentCounter with the given description and location, status
\* REPORTED, no assignee, reportedTime the current ledger time, resolvedTime 0
\* and reportedBy C, emits IncidentReported(id, description, location), and
\* changes no existing incident and no personnel record.
C14_ReportEffect == [][ReportCreatesIncident]_vars

\* a registered person who is not the command center has just reported the
\* second incident, one time step after the first one
C14_Witness ==
  /\ lastTx.ok
  /\ lastTx.op = "reportIncident"
  /\ lastTx.sender # commandCenter
  /\ lastTx.ret = 2
  /\ incidentCounter = 2
  /\ incidents[2].reportedBy = lastTx.sender
  /\ incidents[2].reportedTime = 2
  /\ now = 2
  /\ incidents[1].reportedTime = 1

\* ---------------------------------------------------------------- C15
\* incident i has been set to RESOLVED or CLOSED at some earlier point: such a
\* write stores the ledger time, which is never 0, and nothing writes 0 back
EverResolved(i) == incidents[i].resolvedTime # 0

\* C15 (as stated): in every reachable state an incident's assignedPersonnel
\* is non-zero only if its status is ASSIGNED or IN_PROGRESS, or the incident
\* has been set to RESOLVED or CLOSED at some earlier point (and the pointer
\* has not been cleared since).
C15_AssigneeOnlyWhileActiveOrResolved ==
  \A i \in ExistingIncidents :
    incidents[i].assignedPersonnel # ZeroAddress =>
      incidents[i].status \in ActiveStatus \/ EverResolved(i)

AssigneeWrittenOnlyByAssignAndDeactivate ==
  \A i \in IncidentKeys :
    LET old == incidents[i].assignedPersonnel
        new == incidents'[i].assignedPersonnel
    IN new # old =>
         /\ CommitStep
         /\ new # ZeroAddress =>
              /\ lastTx'.op = "assignPersonnel"
              /\ lastTx'.args = [incidentId |-> i, personnelAddress |-> new]
              /\ incidents'[i].status = "ASSIGNED"
         /\ new = ZeroAddress =>
              /\ lastTx'.op = "deactivatePersonnel"
              /\ personnel[lastTx'.args.personnelAddress].currentIncident = i

StatusUpdateKeepsAssignee ==
  \A i \in ExistingIncidents, sender \in Addresses, s \in IncidentStatus :
    LET res == updateIncidentStatusFn(Storage, sender, now, i, s) IN
    res.ok => res.st.incidents[i].assignedPersonnel = incidents[i].assignedPersonnel

\* C15 (amended): an incident's assignedPersonnel becomes non-zero only in a
\* successful assignPersonnel on it, which sets its status to ASSIGNED in the
\* same step; it then stays as it is whatever status updateIncidentStatus
\* writes, REPORTED included and with or without an earlier resolution, and
\* only a successful deactivatePersonnel of a person whose currentIncident is
\* that incident sets it back to zero.
C15_AssigneeSetOnlyByAssignment ==
  []StatusUpdateKeepsAssignee /\ [][AssigneeWrittenOnlyByAssignAndDeactivate]_vars

\* an assigned incident has just been moved back to REPORTED without ever
\* having been resolved, and still names its assignee
C15_Witness ==
  /\ lastTx.ok
  /\ lastTx.op = "updateIncidentStatus"
  /\ lastTx.args.newStatus = "REPORTED"
  /\ incidents[lastTx.args.incidentId].status = "REPORTED"
  /\ incidents[lastTx.args.incidentId].assignedPersonnel # ZeroAddress
  /\ ~EverResolved(lastTx.args.incidentId)

\* ---------------------------------------------------------------- C16
EveryStatusIsAccepted ==
  \A sender \in Addresses, id \in IncidentIdInputs, newStatus \in IncidentStatus :
    updateIncidentStatusPre(sender, id) =>
      LET res == updateIncidentStatusFn(Storage, sender, now, id, newStatus) IN
      /\ res.ok
      /\ res.st.incidents[id].status = newStatus
      /\ res.events = <<StatusUpdated(id, newStatus)>>

\* C16: for a caller that passes the guards of updateIncidentStatus (authorized,
\* existing incident, command center or the incident's assignee) the call
\* succeeds for each of the five status values and from every current status,
\* backward moves included; afterwards incidents[id].status is the supplied
\* value and exactly StatusUpdated(id, newStatus) has been emitted.
C16_StatusPermissiveness == []EveryStatusIsAccepted

\* an incident that had been resolved has just been moved back to REPORTED
C16_Witness ==
  /\ lastTx.ok
  /\ lastTx.op = "updateIncidentStatus"
  /\ lastTx.args.newStatus = "REPORTED"
  /\ incidents[lastTx.args.incidentId].status = "REPORTED"
  /\ incidents[lastTx.args.incidentId].resolvedTime # 0
  /\ lastTx.events = <<StatusUpdated(lastTx.args.incidentId, "REPORTED")>>

\* ---------------------------------------------------------------- C17
\* incident i is in status ASSIGNED after the step and was not before it
BecomesAssigned(i) ==
  incidents'[i].status = "ASSIGNED" /\ incidents[i].status # "ASSIGNED"

AssignedOnlyByAssignPersonnel ==
  \A i \in IncidentKeys :
    BecomesAssigned(i) =>
      /\ CommitStep
      /\ lastTx'.op = "assignPersonnel"
      /\ lastTx'.args.incidentId = i

\* C17 (as stated): an incident's status becomes ASSIGNED only as a side effect
\* of a successful assignPersonnel; no other entry point moves an incident
\* into status ASSIGNED.
C17_AssignedOnlyViaAssignPersonnel == [][AssignedOnlyByAssignPersonnel]_vars

AssignedOnlyByAssignOrUpdate ==
  \A i \in IncidentKeys :
    BecomesAssigned(i) =>
      /\ CommitStep
      /\ \/ /\ lastTx'.op = "assignPersonnel"
            /\ lastTx'.args.incidentId = i
         \/ /\ lastTx'.op = "updateIncidentStatus"
            /\ lastTx'.args = [incidentId |-> i, newStatus |-> "ASSIGNED"]

\* C17 (amended): an incident's status becomes ASSIGNED only by a successful
\* assignPersonnel on it or by a successful updateIncidentStatus on it called
\* with newStatus = ASSIGNED; registerPersonnel, reportIncident,
\* deactivatePersonnel and transferCommandCenter never move an incident into
\* status ASSIGNED.
C17_AssignedOnlyViaAssignOrUpdate == [][AssignedOnlyByAssignOrUpdate]_vars

\* a status update has just put an incident that nobody is assigned to into
\* status ASSIGNED
C17_Witness ==
  /\ lastTx.ok
  /\ lastTx.op = "updateIncidentStatus"
  /\ lastTx.args.newStatus = "ASSIGNED"
  /\ incidents[lastTx.args.incidentId].status = "ASSIGNED"
  /\ incidents[lastTx.args.incidentId].assignedPersonnel = ZeroAddress
  /\ \A p \in Addresses : personnel[p].currentIncident = 0

\* ---------------------------------------------------------------- C18
\* the step is a successful updateIncidentStatus on i with RESOLVED or CLOSED
ResolvingStep(i) ==
  /\ CommitStep
  /\ lastTx'.op = "updateIncidentStatus"
  /\ lastTx'.args.incidentId = i
  /\ lastTx'.args.newStatus \in {"RESOLVED", "CLOSED"}

ResolvedTimeWrittenOnlyByResolution ==
  \A i \in IncidentKeys :
    IF ResolvingStep(i)
    THEN incidents'[i].resolvedTime = now
    ELSE incidents'[i].resolvedTime = incidents[i].resolvedTime

UnreportedHaveNoResolvedTime ==
  \A i \in IncidentKeys \ ExistingIncidents : incidents[i].resolvedTime = 0

\* C18: an incident's resolvedTime is 0 until the first successful
\* updateIncidentStatus on it with RESOLVED or CLOSED; every such call, a
\* repeated one included, sets it to the ledger time of the call, and no other
\* step (reportIncident of another incident, assignPersonnel,
\* deactivatePersonnel, registerPersonnel, transferCommandCenter,
\* updateIncidentStatus with REPORTED, ASSIGNED or IN_PROGRESS, a rejected
\* call, the passing of time) changes it.
C18_ResolvedTime ==
  []UnreportedHaveNoResolvedTime /\ [][ResolvedTimeWrittenOnlyByResolution]_vars

\* an incident reported at time 1 has just been closed at time 2 and carries
\* the time of that call
C18_Witness ==
  /\ lastTx.ok
  /\ lastTx.op = "updateIncidentStatus"
  /\ lastTx.args.newStatus = "CLOSED"
  /\ now = 2
  /\ incidents[lastTx.args.incidentId].reportedTime = 1
  /\ incidents[lastTx.args.incidentId].resolvedTime = 2
  /\ incidents[lastTx.args.incidentId].status = "CLOSED"

\* ---------------------------------------------------------------- C19
\* the fields an incident gets at its creation
CreationFields(inc) ==
  [id |-> inc.id, description |-> inc.description, location |-> inc.location,
   reportedTime |-> inc.reportedTime, reportedBy |-> inc.reportedBy]

IncidentsKeepTheirKey ==
  \A i \in ExistingIncidents :
    incidents[i].id = i

CreationFieldsNeverChange ==
  \A i \in ExistingIncidents :
    /\ i <= incidentCounter'
    /\ CreationFields(incidents'[i]) = CreationFields(incidents[i])

\* C19: incident records are never removed and their creation fields never
\* change: once incident i exists, in every later state it exists with id = i
\* and with the description, location, reportedTime and reportedBy it was
\* created with, whatever calls follow.
C19_CreationFieldsImmutable ==
  []IncidentsKeepTheirKey /\ [][CreationFieldsNeverChange]_vars

\* an incident reported at time 1 has since been assigned to its reporter
\* and, at time 2, resolved, and still carries its creation fields
C19_Witness ==
  /\ now = 2
  /\ incidentCounter >= 1
  /\ incidents[1].assignedPersonnel # ZeroAddress
  /\ incidents[1].resolvedTime = 2
  /\ CreationFields(incidents[1]) =
       [id |-> 1, description |-> "fire", location |-> "5th ave",
        reportedTime |-> 1, reportedBy |-> incidents[1].assignedPersonnel]

\* ---------------------------------------------------------------- C20
InvalidIncidentIds == IncidentIdInputs \ ExistingIncidents

ZeroAddressIsRejected ==
  \A sender \in Addresses :
    /\ \A reg \in RegistrationInputs :
         Rejected(registerPersonnelFn(Storage, sender, ZeroAddress, reg.name, reg.role))
    /\ \A i \in IncidentIdInputs :
         Rejected(assignPersonnelFn(Storage, sender, i, ZeroAddress))
    /\ Rejected(deactivatePersonnelFn(Storage, sender, ZeroAddress))
    /\ Rejected(transferCommandCenterFn(Storage, sender, ZeroAddress))

SameCommandCenterIsRejected ==
  \A sender \in Addresses :
    Rejected(transferCommandCenterFn(Storage, sender, commandCenter))

InvalidIdIsRejected ==
  \A i \in InvalidIncidentIds :
    /\ \A sender \in Addresses, p \in AllAddresses :
         ~assignPersonnelFn(Storage, sender, i, p).ok
    /\ \A sender \in Addresses, s \in IncidentStatus :
         ~updateIncidentStatusFn(Storage, sender, now, i, s).ok
    /\ ~getIncident(Storage, i).ok

\* C20: registerPersonnel, assignPersonnel and deactivatePersonnel reject the
\* zero address as the personnel address; transferCommandCenter rejects the
\* zero address and the current commandCenter; assignPersonnel,
\* updateIncidentStatus and getIncident reject every incident id that is 0 or
\* greater than incidentCounter, so while no incident has been reported they
\* reject every id.
C20_ValidationGuards ==
  /\ []ZeroAddressIsRejected
  /\ []SameCommandCenterIsRejected
  /\ []InvalidIdIsRejected
  /\ [](0 \in InvalidIncidentIds /\ incidentCounter + 1 \in InvalidIncidentIds)
  /\ [](incidentCounter = 0 => InvalidIncidentIds = IncidentIdInputs)

\* before any incident has been reported, a status update by a caller who is
\* authorized has just been rejected for its incident id
C20_Witness ==
  /\ ~lastTx.ok
  /\ lastTx.op = "updateIncidentStatus"
  /\ lastTx.reason = "Invalid incident ID"
  /\ incidentCounter = 0
  /\ ~getIncident(Storage, 1).ok
  /\ \E p \in Addresses \ {commandCenter} : personnel[p].isActive

\* ---------------------------------------------------------------- C21
\* an incident record without its assignedPersonnel field
IncidentButAssignee(inc) ==
  [id |-> inc.id, description |-> inc.description, location |-> inc.location,
   status |-> inc.status, reportedTime |-> inc.reportedTime,
   resolvedTime |-> inc.resolvedTime, reportedBy |-> inc.reportedBy]

\* a personnel record without its isActive and currentIncident fields
PersonnelIdentity(per) ==
  [walletAddress |-> per.walletAddress, name |-> per.name, role |-> per.role]

DeactivationFrame ==
  \A sender \in Addresses, A \in AllAddresses :
    LET res == deactivatePersonnelFn(Storage, sender, A)
        k   == personnel[A].currentIncident
    IN res.ok =>
         /\ res.events = <<>>
         /\ res.st.commandCenter = commandCenter
         /\ res.st.incidentCounter = incidentCounter
         /\ res.st.authorizedPersonnel = authorizedPersonnel
         /\ \A q \in AllAddresses \ {A} : res.st.personnel[q] = personnel[q]
         /\ PersonnelIdentity(res.st.personnel[A]) = PersonnelIdentity(personnel[A])
         /\ \A j \in IncidentKeys :
              /\ IncidentButAssignee(res.st.incidents[j]) = IncidentButAssignee(incidents[j])
              /\ (j = 0 \/ j # k) => res.st.incidents[j] = incidents[j]

\* C21: a successful deactivatePersonnel(A) emits no event and changes nothing
\* except A's isActive, A's currentIncident and the assignedPersonnel of the
\* incident A's currentIncident pointed to; that incident's status, every other
\* incident and personnel record, authorizedPersonnel, commandCenter and
\* incidentCounter are as they were.
C21_DeactivationFrame == []DeactivationFrame

\* a registered person has just been deactivated and the receipt carries no
\* event: the person is still authorized, and the one incident, reported by
\* the command center, is ASSIGNED but names nobody
C21_Witness ==
  /\ lastTx.ok
  /\ lastTx.op = "deactivatePersonnel"
  /\ lastTx.events = <<>>
  /\ lastTx.args.personnelAddress # commandCenter
  /\ personnel[lastTx.args.personnelAddress].walletAddress = lastTx.args.personnelAddress
  /\ ~personnel[lastTx.args.personnelAddress].isActive
  /\ personnel[lastTx.args.personnelAddress].currentIncident = 0
  /\ authorizedPersonnel[lastTx.args.personnelAddress]
  /\ incidentCounter = 1
  /\ incidents[1].status = "ASSIGNED"
  /\ incidents[1].assignedPersonnel = ZeroAddress
  /\ incidents[1].reportedBy = commandCenter

\* ---------------------------------------------------------------- C22
\* the storage st with the role of person p replaced by r
WithRole(st, p, r) == [st EXCEPT !.personnel[p].role = r]

\* the storages that differ from the current one in the role of one person
RoleVariants ==
  {WithRole(Storage, p, r) : p \in Addresses, r \in PersonnelRole} \ {Storage}

\* the storage st with every role field blanked out
EraseRoles(st) ==
  [st EXCEPT !.personnel =
     [p \in AllAddresses |-> [st.personnel[p] EXCEPT !.role = "INCIDENT_COMMANDER"]]]

\* two outcomes of one call, on the current storage and on st2, agree: both
\* succeed with the same storage up to roles, or both are rejected for the
\* same reason and leave their storage as it was; events and return value are
\* the same
SameOutcome(st2, r1, r2) ==
  /\ r1.ok = r2.ok
  /\ r1.reason = r2.reason
  /\ r1.events = r2.events
  /\ r1.ret = r2.ret
  /\ IF r1.ok THEN EraseRoles(r1.st) = EraseRoles(r2.st)
              ELSE r1.st = Storage /\ r2.st = st2

RoleIsInformational ==
  \A st2 \in RoleVariants, sender \in Addresses :
    /\ \A p \in AllAddresses, reg \in RegistrationInputs :
         SameOutcome(st2, registerPersonnelFn(Storage, sender, p, reg.name, reg.role),
                     registerPersonnelFn(st2, sender, p, reg.name, reg.role))
    /\ \A d \in DescriptionInputs, l \in LocationInputs :
         SameOutcome(st2, reportIncidentFn(Storage, sender, now, d, l),
                     reportIncidentFn(st2, sender, now, d, l))
    /\ \A i \in IncidentIdInputs, p \in AllAddresses :
         SameOutcome(st2, assignPersonnelFn(Storage, sender, i, p),
                     assignPersonnelFn(st2, sender, i, p))
    /\ \A i \in IncidentIdInputs, s \in IncidentStatus :
         SameOutcome(st2, updateIncidentStatusFn(Storage, sender, now, i, s),
                     updateIncidentStatusFn(st2, sender, now, i, s))
    /\ \A p \in AllAddresses :
         SameOutcome(st2, deactivatePersonnelFn(Storage, sender, p),
                     deactivatePersonnelFn(st2, sender, p))
    /\ \A n \in AllAddresses :
         SameOutcome(st2, transferCommandCenterFn(Storage, sender, n),
                     transferCommandCenterFn(st2, sender, n))
    /\ \A i \in IncidentIdInputs :
         SameOutcome(st2, getIncident(Storage, i), getIncident(st2, i))

\* C22: role is informational only: for the current registry state and any
\* state that differs from it only in the role of a personnel record, every
\* entry point called with the same caller, arguments and ledger time either
\* succeeds on both or is rejected on both for the same reason, and leaves the
\* same events, return value and storage in every field other than role.
C22_RoleIsInformational == []RoleIsInformational

\* a person registered as safety officer, not as first responder, has just
\* been assigned to an incident
C22_Witness ==
  /\ lastTx.ok
  /\ lastTx.op = "assignPersonnel"
  /\ personnel[lastTx.args.personnelAddress].role = "SAFETY_OFFICER"
  /\ personnel[lastTx.args.personnelAddress].currentIncident = lastTx.args.incidentId
  /\ incidents[lastTx.args.incidentId].assignedPersonnel = lastTx.args.personnelAddress

\* ---------------------------------------------------------------- C23
\* C23: back-pointer consistency: in every reachable state, a person P whose
\* currentIncident is a non-zero i is the assignedPersonnel of incident i, also
\* after assignPersonnel on an incident that already has another assignee.
C23_BackPointerConsistency ==
  \A P \in Addresses :
    personnel[P].currentIncident # 0 =>
      incidents[personnel[P].currentIncident].assignedPersonnel = P

\* ---------------------------------------------------------------- C24
\* C24: a successful updateIncidentStatus(i, s) never changes the
\* currentIncident of a person whose currentIncident is another incident j
\* (j non-zero, j # i): resolving or closing an old incident again does not
\* free its recorded assignee from the incident they are assigned to now.
C24_UpdateLeavesOtherAssignments ==
  \A sender \in Addresses, i \in ExistingIncidents, s \in IncidentStatus :
    LET res == updateIncidentStatusFn(Storage, sender, now, i, s) IN
    res.ok =>
      \A P \in Addresses :
        LET j == personnel[P].currentIncident IN
        (j # 0 /\ j # i) => res.st.personnel[P].currentIncident = j

\* ---------------------------------------------------------------- C25
\* C25: deactivatePersonnel(P) never removes another person's assignment: it
\* sets incidents[k].assignedPersonnel to the zero sentinel only for an
\* incident k whose assignedPersonnel was P, and leaves the assignedPersonnel
\* of every incident assigned to some Q different from P as it was.
C25_DeactivationSparesOthers ==
  \A sender \in Addresses, P \in Addresses :
    LET res == deactivatePersonnelFn(Storage, sender, P) IN
    res.ok =>
      \A k \in ExistingIncidents :
        incidents[k].assignedPersonnel # P =>
          res.st.incidents[k].assignedPersonnel = incidents[k].assignedPersonnel

\* ---------------------------------------------------------------- C26
CommandCenterIsAuthorized == authorizedPersonnel[commandCenter]

\* C26: the command center is always authorized: in every reachable state,
\* from deployment on and across any number of transfers,
\* authorizedPersonnel[commandCenter] is true.
C26_CommandCenterAuthorized == []CommandCenterIsAuthorized

\* the role has just been transferred a second time, to an address that was
\* never registered as personnel
C26_Witness ==
  /\ lastTx.ok
  /\ lastTx.op = "transferCommandCenter"
  /\ commandCenter = lastTx.args.newCommandCenter
  /\ commandCenter # Deployer
  /\ lastTx.sender # Deployer
  /\ personnel[commandCenter] = EmptyPersonnel
  /\ authorizedPersonnel[commandCenter]

\* ---------------------------------------------------------------- C27
InactiveHoldNoAssignment ==
  \A P \in AllAddresses :
    ~personnel[P].isActive => personnel[P].currentIncident = 0

\* C27: in every reachable state an inactive person holds no assignment
\* bookkeeping: personnel[P].isActive = false implies
\* personnel[P].currentIncident = 0, for every address P.
C27_InactiveHoldNoAssignment == []InactiveHoldNoAssignment

\* a registered person has just been deactivated and is inactive with
\* currentIncident 0, while an incident in progress names no assignee
C27_Witness ==
  \E P \in Addresses :
    /\ personnel[P].walletAddress = P
    /\ ~personnel[P].isActive
    /\ personnel[P].currentIncident = 0
    /\ lastTx.ok
    /\ lastTx.op = "deactivatePersonnel"
    /\ lastTx.args.personnelAddress = P
    /\ \E k \in ExistingIncidents :
         /\ incidents[k].status = "IN_PROGRESS"
         /\ incidents[k].assignedPersonnel = ZeroAddress

\* ---------------------------------------------------------------- C28
ActiveAreAuthorized ==
  \A P \in AllAddresses : personnel[P].isActive => authorizedPersonnel[P]

\* for an active target the authorization check of assignPersonnel never fails
ActiveTargetNeverUnauthorized ==
  \A i \in IncidentIdInputs, P \in AllAddresses :
    personnel[P].isActive =>
      assignPersonnelFn(Storage, commandCenter, i, P).reason # "Personnel not authorized"

\* C28: in every reachable state every active person is authorized:
\* personnel[P].isActive = true implies authorizedPersonnel[P] = true, so
\* assignPersonnel never rejects an active target as 'Personnel not authorized'.
C28_ActiveAreAuthorized == []ActiveAreAuthorized /\ []ActiveTargetNeverUnauthorized

\* one registered person is active and another has been deactivated; both are
\* authorized, and so is the command center, which has no personnel record
C28_Witness ==
  \E P, Q \in Addresses \ {commandCenter} :
    /\ personnel[P].isActive
    /\ authorizedPersonnel[P]
    /\ personnel[Q].walletAddress = Q
    /\ ~personnel[Q].isActive
    /\ authorizedPersonnel[Q]
    /\ ~personnel[commandCenter].isActive

\* ---------------------------------------------------------------- C29
\* address p has been registered: only registerPersonnel writes walletAddress
Registered(p) == personnel[p].walletAddress = p

CurrentIncidentsAreValid ==
  \A P \in AllAddresses : personnel[P].currentIncident \in 0 .. incidentCounter

AssigneesAreRegistered ==
  \A i \in IncidentKeys :
    LET assignee == incidents[i].assignedPersonnel IN
    assignee # ZeroAddress =>
      /\ i \in ExistingIncidents
      /\ Registered(assignee)
      /\ authorizedPersonnel[assignee]

\* C29: assignment pointers never dangle: in every reachable state every
\* person's currentIncident is 0 or an incident id in 1..incidentCounter, and
\* every incident's assignedPersonnel is the zero sentinel or an address that
\* has been registered by registerPersonnel and is in authorizedPersonnel.
C29_PointersNeverDangle == []CurrentIncidentsAreValid /\ []AssigneesAreRegistered

\* the second of two incidents is assigned to a registered, authorized person
\* whose currentIncident names it; the first incident has no assignee
C29_Witness ==
  \E P \in Addresses :
    /\ incidentCounter = 2
    /\ personnel[P].currentIncident = 2
    /\ incidents[2].assignedPersonnel = P
    /\ Registered(P)
    /\ authorizedPersonnel[P]
    /\ incidents[1].assignedPersonnel = ZeroAddress

\* ---------------------------------------------------------------- C30
ResolvedIncidentsHaveResolvedTime ==
  \A i \in ExistingIncidents :
    incidents[i].status \in {"RESOLVED", "CLOSED"} =>
      /\ incidents[i].resolvedTime # 0
      /\ incidents[i].resolvedTime >= incidents[i].reportedTime

\* C30: with positive, non-decreasing ledger timestamps, in every reachable
\* state an incident whose status is RESOLVED or CLOSED has a non-zero
\* resolvedTime that is greater than or equal to its reportedTime (an incident
\* in another status may have a non-zero resolvedTime as well).
C30_ResolvedHaveResolvedTime == []ResolvedIncidentsHaveResolvedTime

\* of two incidents reported at time 1, one is CLOSED with the later
\* resolvedTime 2 and the other is still REPORTED with resolvedTime 0
C30_Witness ==
  /\ incidentCounter = 2
  /\ \E i, j \in ExistingIncidents :
       /\ incidents[i].status = "CLOSED"
       /\ incidents[i].reportedTime = 1
       /\ incidents[i].resolvedTime = 2
       /\ incidents[j].status = "REPORTED"
       /\ incidents[j].resolvedTime = 0

====
